---- MODULE Spec2Model ----
(***************************************************************************)
(* Model of the FunctionFS registrar of tezsign: main's bootstrap of the   *)
(* EP0 control endpoint, the liveness watcher's stores to the readiness    *)
(* flag, and the event loop drainEP0Events.                                *)
(* Also the gadget's attemptLimiter (SpecLimiter) and the logging          *)
(* package's SimpleLogResetWriter (SpecLog), each under its own            *)
(* specification over the shared variables.                                *)
(***************************************************************************)
EXTENDS Integers, Sequences, FiniteSets, TLC

\* ------------------------------------------------------------------ bounds
\* number of ep0.Read calls the loop may make in one behaviour
MaxReads == 3
\* number of stores the liveness watcher may make in one behaviour
MaxStores == 1

\* ------------------------------------------------------ program constants
\* size of one FunctionFS event record: 8 setup bytes, 1 type byte, 3 pad
evSize == 12
\* event-type discriminator of a setup event
evTypeSetup == 4
\* bmRequestType of a vendor, device-to-host request
bmReqTypeVendorIn == 192
\* bRequest code of the "ready" request
vendorReqReady == 1
\* protocol version placed in the reply
protoVersion == 1
\* ep0ReadRetryDelay = time.Second, in milliseconds
ep0ReadRetryDelay == 1000
\* len(reply), the [8]byte array of the vendor reply
replyLen == 8

\* "TZSG" as ASCII bytes
Tag == <<84, 90, 83, 71>>

\* ------------------------------------------------------------ input sets
\* values the first byte of a frame (bmRequestType) is drawn from
ReqTypeBytes == {bmReqTypeVendorIn, 65}
\* values the second byte of a frame (bRequest) is drawn from
ReqBytes == {vendorReqReady, 90}
\* values of the low and the high byte of wLength
LenLoBytes == {0, 3, 7, 8, 9}
LenHiBytes == {0, 255}
\* values of the event-type byte
EvTypeBytes == {evTypeSetup, 2}
\* byte counts a short read may report
ShortLens == {0, 8}
\* values the liveness watcher may store into the atomic.Uint32 cell (all
\* within the cell's range, so a store keeps the value as it is)
StoreVals == {1, 256}

\* the event records the kernel may deliver
Frames ==
  { <<t, r, 0, 0, 0, 0, lo, hi, e, 0, 0, 0>> :
      t \in ReqTypeBytes, r \in ReqBytes, lo \in LenLoBytes,
      hi \in LenHiBytes, e \in EvTypeBytes }

\* the event records of the behaviours that record the replies: the vendor
\* "ready" request with lengths 3 and 9, one other request, one other event
ReplyFrames ==
  { f \in Frames :
      /\ f[8] = 0
      /\ \/ f[1] = bmReqTypeVendorIn /\ f[2] = vendorReqReady
            /\ f[7] \in {3, 9} /\ f[9] = evTypeSetup
         \/ f[1] # bmReqTypeVendorIn /\ f[2] # vendorReqReady /\ f[7] = 3 }

VARIABLES
  pc,        \* position of the main goroutine
  ep0,       \* state of the device handle: "unopened", "open", "closed"
  exitCode,  \* -1 while running, else the process's exit status
  watching,  \* TRUE once the watchLiveness goroutine was started
  ready,     \* the atomic.Uint32 readiness flag
  buf,       \* the loop's reused read buffer, evSize bytes
  out,       \* the bytes the loop is about to write (reply[:wlen] or nil)
  boot,      \* history: the blobs main wrote before the loop
  lastRead,  \* history: outcome of the loop's latest ep0.Read
  prev,      \* history: the read before the latest and what followed it
  since,     \* history: what the loop did since its latest ep0.Read
  loaded,    \* history: the flag's value and store count at the latest Load
  stores,    \* history: the values stored by the watcher, in order
  storesAtRead, \* history: number of completed stores at the latest read
  nReads,    \* history: number of ep0.Read calls of the loop
  nSetups,   \* history: number of full-size setup frames read
  nWrites,   \* history: number of ep0.Write calls of the loop
  failed,    \* history: TRUE once a write of the loop has failed
  frames,    \* which event records the kernel may deliver: "all", "replies"
  track,     \* history: TRUE when the vendor replies written are recorded
  seen       \* history: the vendor replies written, when recorded

\* the event records the kernel may deliver in this behaviour
Delivered == IF frames = "replies" THEN ReplyFrames ELSE Frames

\* the registrar: main, the watcher and the event loop
mainVars == <<pc, ep0, exitCode, watching, ready, buf, out, boot, lastRead,
              prev, since, loaded, stores, storesAtRead, nReads, nSetups,
              nWrites, failed, frames, track, seen>>

VARIABLES
  limMax,    \* attemptLimiter.max
  limWindow, \* attemptLimiter.window, in clock ticks
  attempts,  \* attemptLimiter.attempts, the counted timestamps
  mu,        \* attemptLimiter.mu: 0 when free, else the caller holding it
  clock,     \* the monotonic clock read by time.Now()
  limPanic,  \* TRUE once an Allow call has panicked
  allowed,   \* history: the timestamps of all calls that returned true
  lastCall,  \* history: the latest Allow call and its result
  due,       \* history: now + wait of the latest throttled call, -1 if none
  nCalls     \* history: number of Allow calls started

\* the attempt limiter
limVars == <<limMax, limWindow, attempts, mu, clock, limPanic, allowed,
             lastCall, due, nCalls>>

VARIABLES
  logMaxSize, \* SimpleLogResetWriter.MaxSize
  written,    \* SimpleLogResetWriter.written
  logFile,    \* SimpleLogResetWriter.File: "nil", "open" or "closed"
  content,    \* the bytes of the log file on disk
  hist,       \* history: one record per Write call
  logClosed   \* history: TRUE once Close was called

\* the log writer
logVars == <<logMaxSize, written, logFile, content, hist, logClosed>>

\* the variables of the other components, which the registrar never touches
sideVars == <<limVars, logVars>>

vars == <<mainVars, sideVars>>

\* ----------------------------------------------------------- pure helpers
\* byte(x): conversion of an unsigned integer to uint8
Byte(x) == x % 256

\* the control request decoded from the 8 setup bytes
parseCtrlReq(b) ==
  [ bmRequestType |-> b[1],
    bRequest      |-> b[2],
    wValue        |-> b[3] + 256 * b[4],
    wIndex        |-> b[5] + 256 * b[6],
    wLength       |-> b[7] + 256 * b[8] ]

\* variant: big-endian byte order
PutUint16_be(v) == << (v \div 256) % 256, v % 256 >>

\* binary.LittleEndian.PutUint16
PutUint16(v) == << v % 256, (v \div 256) % 256 >>

\* variant: the two comparisons joined by "or"
IsVendorReady_or(req) ==
  req.bmRequestType = bmReqTypeVendorIn \/ req.bRequest = vendorReqReady

\* the condition of the vendor branch
IsVendorReady(req) ==
  req.bmRequestType = bmReqTypeVendorIn /\ req.bRequest = vendorReqReady

\* variant: the reserved byte carries a count of the writes made so far
BuildReply_seq(rdy) ==
  Tag \o PutUint16(protoVersion) \o << Byte(rdy), nWrites % 256 >>

\* the [8]byte reply for a loaded readiness word
BuildReply(rdy) == Tag \o PutUint16(protoVersion) \o << Byte(rdy), 0 >>

\* variant: the requested length narrowed to its low byte before the clamp
ClampLen_lo(wLength) ==
  IF wLength % 256 > replyLen THEN replyLen ELSE wLength % 256

\* wlen, the requested length clamped to len(reply)
ClampLen(wLength) == IF wLength > replyLen THEN replyLen ELSE wLength

\* reply[:wlen]
VendorReply(req, rdy) == SubSeq(BuildReply(rdy), 1, ClampLen(req.wLength))

\* the argument of the STALL write, ep0.Write(nil)
StallData == << >>

\* the first n bytes of frame f read into buffer b
ReadInto(b, f, n) == [ i \in 1..evSize |-> IF i <= n THEN f[i] ELSE b[i] ]

NoRead == [ kind |-> "none", n |-> 0 ]
NoPrev == [ kind |-> "none", ops |-> << >> ]
NoLoad == [ val |-> 0, ver |-> 0, done |-> FALSE ]
Op(o, d, k) == [ op |-> o, data |-> d, ok |-> k ]

\* ------------------------------------------------------------------- Init
\* the registrar at process start, before main opens the device file
MainStart ==
  /\ pc = "open"
  /\ ep0 = "unopened"
  /\ exitCode = -1
  /\ watching = FALSE
  /\ ready = 0
  /\ buf = [ i \in 1..evSize |-> 0 ]
  /\ out = << >>
  /\ boot = << >>
  /\ lastRead = NoRead
  /\ prev = NoPrev
  /\ since = << >>
  /\ loaded = NoLoad
  /\ stores = << >>
  /\ storesAtRead = 0
  /\ nReads = 0
  /\ nSetups = 0
  /\ nWrites = 0
  /\ failed = FALSE

NoCall == [ called |-> FALSE, result |-> "none", wait |-> 0, now |-> 0,
            before |-> << >>, prior |-> << >>, dueBefore |-> -1 ]

\* an attempt limiter that was constructed and never called
LimFresh ==
  /\ attempts = << >>
  /\ mu = 0
  /\ clock = 0
  /\ limPanic = FALSE
  /\ allowed = << >>
  /\ lastCall = NoCall
  /\ due = -1
  /\ nCalls = 0

\* the attempt limiter idle: newAttemptLimiter(1, 1), never called
LimIdle == limMax = 1 /\ limWindow = 1 /\ LimFresh

\* a log writer right after NewSimpleLogResetWriter returned it: the file
\* was opened with O_TRUNC
LogFresh ==
  /\ written = 0
  /\ logFile = "open"
  /\ content = << >>
  /\ hist = << >>
  /\ logClosed = FALSE

\* the log writer idle: NewSimpleLogResetWriter(path, 1), never written to
LogIdle == logMaxSize = 1 /\ LogFresh

\* the other components idle
SideIdle == LimIdle /\ LogIdle

Init ==
  /\ MainStart
  /\ frames = "all"
  /\ track = FALSE
  /\ seen = {}
  /\ SideIdle

\* a behaviour of the registrar over a few event records, with the vendor
\* replies recorded
InitReplies ==
  /\ MainStart
  /\ frames = "replies"
  /\ track = TRUE
  /\ seen = {}
  /\ SideIdle

loopVars == <<buf, out, lastRead, prev, since, loaded, storesAtRead, nReads,
              nSetups, nWrites, failed, frames, track, seen>>

\* ---------------------------------------------------------------- main
\* os.OpenFile(Ep0Path, os.O_RDWR, 0): on error os.Exit(1)
OpenEp0 ==
  /\ pc = "open"
  /\ \E ok \in BOOLEAN :
       IF ok
         THEN /\ ep0' = "open"
              /\ pc' = "descriptors"
              /\ exitCode' = exitCode
         ELSE /\ ep0' = ep0
              /\ pc' = "exited"
              /\ exitCode' = 1
  /\ UNCHANGED <<watching, ready, boot, stores>>
  /\ UNCHANGED loopVars
  /\ UNCHANGED sideVars

\* variant: a failed bootstrap write is logged and main goes on
AfterBootWrite_goon(ok, next) == next

\* where main goes after a bootstrap write: on error os.Exit(1)
AfterBootWrite(ok, next) == IF ok THEN next ELSE "exited"

\* ep0.Write(deviceDescriptors): on error os.Exit(1), which runs no defer
WriteDescriptors ==
  /\ pc = "descriptors"
  /\ \E ok \in BOOLEAN :
       /\ boot' = Append(boot, Op("descriptors", << >>, ok))
       /\ pc' = AfterBootWrite(ok, "strings")
       /\ exitCode' = IF ok THEN exitCode ELSE 1
  /\ UNCHANGED <<ep0, watching, ready, stores>>
  /\ UNCHANGED loopVars
  /\ UNCHANGED sideVars

\* ep0.Write(deviceStrings): on error os.Exit(1), which runs no defer
WriteStrings ==
  /\ pc = "strings"
  /\ \E ok \in BOOLEAN :
       /\ boot' = Append(boot, Op("strings", << >>, ok))
       /\ pc' = AfterBootWrite(ok, "watch")
       /\ exitCode' = IF ok THEN exitCode ELSE 1
  /\ UNCHANGED <<ep0, watching, ready, stores>>
  /\ UNCHANGED loopVars
  /\ UNCHANGED sideVars

\* var ready atomic.Uint32; go watchLiveness(...); drainEP0Events(...)
StartWatcher ==
  /\ pc = "watch"
  /\ watching' = TRUE
  /\ pc' = "read"
  /\ UNCHANGED <<ep0, exitCode, ready, boot, stores>>
  /\ UNCHANGED loopVars
  /\ UNCHANGED sideVars

\* return of drainEP0Events to main: the deferred ep0.Close(), then exit 0
MainReturn ==
  /\ pc = "stopped"
  /\ ep0' = "closed"
  /\ pc' = "exited"
  /\ exitCode' = 0
  /\ UNCHANGED <<watching, ready, boot, stores>>
  /\ UNCHANGED loopVars
  /\ UNCHANGED sideVars

\* ------------------------------------------------------ liveness watcher
\* ready.Store(v) by the watchLiveness goroutine
WatcherStore ==
  /\ watching
  /\ pc # "exited"
  /\ Len(stores) < MaxStores
  /\ \E v \in StoreVals :
       /\ ready' = v
       /\ stores' = Append(stores, v)
  /\ UNCHANGED <<pc, ep0, exitCode, watching, boot>>
  /\ UNCHANGED loopVars
  /\ UNCHANGED sideVars

\* ------------------------------------------------------ drainEP0Events
\* the history kept for a call of ep0.Read
NoteRead(kind, n) ==
  /\ lastRead' = [ kind |-> kind, n |-> n ]
  /\ prev' = [ kind |-> lastRead.kind,
                ops |-> [ i \in DOMAIN since |-> since[i].op ] ]
  /\ since' = << >>
  /\ loaded' = NoLoad
  /\ storesAtRead' = Len(stores)
  /\ nReads' = nReads + 1

\* variant: every read error ends the loop
AfterReadError_fatal(isEOF) == "stopped"

\* variant: a read error is retried at once, without the delay
AfterReadError_nosleep(isEOF) == IF isEOF THEN "stopped" ELSE "read"

\* where the loop goes after a failed read: return on io.EOF, else sleep
AfterReadError(isEOF) == IF isEOF THEN "stopped" ELSE "sleep"

\* ep0.Read reports io.EOF: return
ReadEOF ==
  /\ pc = "read"
  /\ nReads < MaxReads
  /\ NoteRead("eof", 0)
  /\ pc' = AfterReadError(TRUE)
  /\ UNCHANGED <<ep0, exitCode, watching, ready, buf, out, boot, stores,
                 nSetups, nWrites, failed, frames, track, seen>>
  /\ UNCHANGED sideVars

\* ep0.Read reports another error: warn, then time.Sleep
ReadError ==
  /\ pc = "read"
  /\ nReads < MaxReads
  /\ NoteRead("err", 0)
  /\ pc' = AfterReadError(FALSE)
  /\ UNCHANGED <<ep0, exitCode, watching, ready, buf, out, boot, stores,
                 nSetups, nWrites, failed, frames, track, seen>>
  /\ UNCHANGED sideVars

\* time.Sleep(ep0ReadRetryDelay); continue
Sleep ==
  /\ pc = "sleep"
  /\ since' = Append(since, Op("sleep", << ep0ReadRetryDelay >>, TRUE))
  /\ pc' = "read"
  /\ UNCHANGED <<ep0, exitCode, watching, ready, buf, out, boot, lastRead, prev,
                 loaded, stores, storesAtRead, nReads, nSetups, nWrites,
                 failed, frames, track, seen>>
  /\ UNCHANGED sideVars

\* variant: the length check is missing, the buffer is dispatched
AfterShortRead_dispatch(b) == IF b[9] # evTypeSetup THEN "read" ELSE "dispatch"

\* where the loop goes after a read of n < evSize bytes: continue
AfterShortRead(b) == "read"

\* ep0.Read returns n < evSize without error: warn, continue
ReadShort ==
  /\ pc = "read"
  /\ nReads < MaxReads
  /\ \E f \in Delivered, n \in ShortLens :
       /\ buf' = ReadInto(buf, f, n)
       /\ NoteRead("short", n)
       /\ pc' = AfterShortRead(ReadInto(buf, f, n))
  /\ UNCHANGED <<ep0, exitCode, watching, ready, out, boot, stores,
                 nSetups, nWrites, failed, frames, track, seen>>
  /\ UNCHANGED sideVars

\* variant: the event-type check is missing
AfterFullRead_all(b) == "dispatch"

\* where the loop goes after a full-size read, by the event-type byte
AfterFullRead(b) == IF b[9] # evTypeSetup THEN "read" ELSE "dispatch"

\* ep0.Read returns a full event record; non-setup events: continue
ReadFull ==
  /\ pc = "read"
  /\ nReads < MaxReads
  /\ \E f \in Delivered :
       /\ buf' = ReadInto(buf, f, evSize)
       /\ NoteRead("full", evSize)
       /\ pc' = AfterFullRead(f)
       /\ nSetups' = IF f[9] = evTypeSetup THEN nSetups + 1 ELSE nSetups
  /\ UNCHANGED <<ep0, exitCode, watching, ready, out, boot, stores,
                 nWrites, failed, frames, track, seen>>
  /\ UNCHANGED sideVars

\* variant: the slice taken one byte too far
SetupBytes_off(b) == SubSeq(b, 2, 9)

\* buf[0:8], the setup bytes handed to parseCtrlReq
SetupBytes(b) == SubSeq(b, 1, 8)

\* the bytes the loop writes for request req when the flag holds rdy
Response(req, rdy) ==
  IF IsVendorReady(req) THEN VendorReply(req, rdy) ELSE StallData

\* parseCtrlReq(buf[0:8]) and the branch on the request; the vendor branch
\* loads the readiness flag once, atomically
Dispatch ==
  /\ pc = "dispatch"
  /\ LET req == parseCtrlReq(SetupBytes(buf)) IN
       /\ out' = Response(req, ready)
       /\ loaded' = IF IsVendorReady(req)
                      THEN [ val |-> ready, ver |-> Len(stores),
                             done |-> TRUE ]
                      ELSE loaded
  /\ pc' = "write"
  /\ UNCHANGED <<ep0, exitCode, watching, ready, buf, boot, lastRead, prev,
                 since, stores, storesAtRead, nReads, nSetups, nWrites,
                 failed, frames, track, seen>>
  /\ UNCHANGED sideVars

\* variant: a failed write is retried
AfterWrite_retry(ok) == IF ok THEN "read" ELSE "write"

\* variant: a failed write ends the loop
AfterWrite_stop(ok) == IF ok THEN "read" ELSE "stopped"

\* where the loop goes after ep0.Write, by the write's outcome
AfterWrite(ok) == "read"

\* ep0.Write(reply[:wlen]) or ep0.Write(nil); an error is only logged
Write ==
  /\ pc = "write"
  /\ \E ok \in BOOLEAN :
       /\ since' = Append(since, Op("write", out, ok))
       /\ failed' = (failed \/ ~ok)
       /\ pc' = AfterWrite(ok)
  /\ nWrites' = nWrites + 1
  /\ out' = << >>
  /\ seen' = IF track /\ loaded.done
               THEN seen \cup { [ len |-> parseCtrlReq(SetupBytes(buf)).wLength,
                                  rdy |-> loaded.val, data |-> out ] }
               ELSE seen
  /\ UNCHANGED <<ep0, exitCode, watching, ready, buf, boot, lastRead, prev,
                 loaded, stores, storesAtRead, nReads, nSetups, frames, track>>
  /\ UNCHANGED sideVars

Next ==
  \/ OpenEp0
  \/ WriteDescriptors
  \/ WriteStrings
  \/ StartWatcher
  \/ MainReturn
  \/ WatcherStore
  \/ ReadEOF
  \/ ReadError
  \/ Sleep
  \/ ReadShort
  \/ ReadFull
  \/ Dispatch
  \/ Write

Spec == Init /\ [][Next]_vars

\* the registrar over ReplyFrames, with the vendor replies recorded
SpecReplies == InitReplies /\ [][Next]_vars

\* ------------------------------------------------------- attemptLimiter
\* number of clock ticks in one behaviour
MaxTime == 5
\* number of Allow calls in one behaviour
MaxCalls == 4
\* the goroutines calling Allow
Callers == {1, 2}
\* the values of max and window the limiter is constructed with
LimMaxes == {-1, 0, 1, 2}
LimWindows == {0, 2, 3}

\* newAttemptLimiter(max, window)
InitLimiter ==
  /\ MainStart
  /\ frames = "all"
  /\ track = FALSE
  /\ seen = {}
  /\ limMax \in LimMaxes
  /\ limWindow \in LimWindows
  /\ LimFresh
  /\ LogIdle

\* the monotonic clock advances
LimTick ==
  /\ clock < MaxTime
  /\ ~limPanic
  /\ clock' = clock + 1
  /\ UNCHANGED <<limMax, limWindow, attempts, mu, limPanic, allowed,
                 lastCall, due, nCalls>>
  /\ UNCHANGED mainVars
  /\ UNCHANGED logVars

\* l.mu.Lock() at the start of Allow
LimLock(c) ==
  /\ mu = 0
  /\ ~limPanic
  /\ nCalls < MaxCalls
  /\ mu' = c
  /\ nCalls' = nCalls + 1
  /\ UNCHANGED <<limMax, limWindow, attempts, clock, limPanic, allowed,
                 lastCall, due>>
  /\ UNCHANGED mainVars
  /\ UNCHANGED logVars

\* variant: an attempt exactly one window old still counts
After_ge(ts, cutoff) == ts >= cutoff

\* ts.After(cutoff)
After(ts, cutoff) == ts > cutoff

\* the attempts kept by the loop that drops the stale ones
RECURSIVE DropStale(_, _)
DropStale(att, cutoff) ==
  IF att = << >> THEN << >>
  ELSE IF After(Head(att), cutoff)
         THEN << Head(att) >> \o DropStale(Tail(att), cutoff)
         ELSE DropStale(Tail(att), cutoff)

\* variant: the window is not full until more than max attempts are counted
IsThrottled_gt(valid, max) == Len(valid) > max

\* len(l.attempts) >= l.max
IsThrottled(valid, max) == Len(valid) >= max

\* the wait returned when throttled; valid is not empty
WaitFor(valid, window, now) ==
  LET wait == valid[1] + window - now IN IF wait < 0 THEN 0 ELSE wait

\* variant: a throttled attempt is recorded as well
ThrottledAttempts_rec(valid, now) == Append(valid, now)

\* l.attempts after a throttled call
ThrottledAttempts(valid, now) == valid

\* the body of Allow under the mutex, and the deferred l.mu.Unlock();
\* l.attempts[0] of an empty slice panics
LimAllow(c) ==
  /\ mu = c
  /\ LET now == clock
         valid == DropStale(attempts, now - limWindow)
         call == [ called |-> TRUE, result |-> "none", wait |-> 0,
                   now |-> now, before |-> attempts, prior |-> allowed,
                   dueBefore |-> due ]
     IN
       IF IsThrottled(valid, limMax)
         THEN IF valid = << >>
                THEN /\ attempts' = valid
                     /\ limPanic' = TRUE
                     /\ lastCall' = [ call EXCEPT !.result = "panic" ]
                     /\ UNCHANGED <<allowed, due>>
                ELSE /\ attempts' = ThrottledAttempts(valid, now)
                     /\ lastCall' = [ call EXCEPT
                                        !.result = "false",
                                        !.wait = WaitFor(valid, limWindow, now) ]
                     /\ due' = now + WaitFor(valid, limWindow, now)
                     /\ UNCHANGED <<allowed, limPanic>>
         ELSE /\ attempts' = Append(valid, now)
              /\ allowed' = Append(allowed, now)
              /\ lastCall' = [ call EXCEPT !.result = "true" ]
              /\ due' = -1
              /\ UNCHANGED limPanic
  /\ mu' = 0
  /\ UNCHANGED <<limMax, limWindow, clock, nCalls>>
  /\ UNCHANGED mainVars
  /\ UNCHANGED logVars

NextLimiter ==
  \/ LimTick
  \/ \E c \in Callers : LimLock(c)
  \/ \E c \in Callers : LimAllow(c)

SpecLimiter == InitLimiter /\ [][NextLimiter]_vars

\* ------------------------------------------------- SimpleLogResetWriter
\* number of Write calls in one behaviour
MaxLogWrites == 3
\* the values of MaxSize the writer is constructed with
LogMaxSizes == {0, 2, 3}
\* the lengths of the slices handed to Write
PLens == {0, 1, 2, 3}

\* NewSimpleLogResetWriter(filePath, maxSize) returned a writer
InitLog ==
  /\ MainStart
  /\ frames = "all"
  /\ track = FALSE
  /\ seen = {}
  /\ LimIdle
  /\ logMaxSize \in LogMaxSizes
  /\ LogFresh

\* variant: the reset waits until the count exceeds MaxSize
ResetNeeded_gt(w, max) == w > max

\* the condition of resetIfNeeded
ResetNeeded(w, max) == w >= max

\* w.File after openFile: the new handle, or nil when the open failed
Opened(ok) == IF ok THEN "open" ELSE "nil"

\* Write under the mutex: resetIfNeeded, the count, the open of a nil
\* file, File.Write; reopenOk, retryOk and writeOk are the outcomes of the
\* openFile of the reset, the openFile of Write and File.Write
LogWrite ==
  /\ Len(hist) < MaxLogWrites
  /\ \E k \in PLens, reopenOk \in BOOLEAN, retryOk \in BOOLEAN,
        writeOk \in BOOLEAN :
       LET p == [ i \in 1..k |-> Len(hist) + 1 ]
           reset == ResetNeeded(written, logMaxSize)
           w1 == IF reset THEN 0 ELSE written
           f1 == IF reset THEN Opened(reopenOk) ELSE logFile
           c1 == IF reset /\ reopenOk THEN << >> ELSE content
           w2 == w1 + k
           retry == f1 = "nil"
           f2 == IF retry THEN Opened(retryOk) ELSE f1
           c2 == IF retry /\ retryOk THEN << >> ELSE c1
           wrote == f2 = "open" /\ writeOk
       IN
         /\ written' = w2
         /\ logFile' = f2
         /\ content' = IF wrote THEN c2 \o p ELSE c2
         /\ hist' = Append(hist,
              [ p |-> p,
                fileBefore |-> logFile,
                reset |-> reset,
                truncated |-> (reset /\ reopenOk) \/ (retry /\ retryOk),
                opens |-> (IF reset THEN 1 ELSE 0) + (IF retry THEN 1 ELSE 0),
                fails |-> (IF reset /\ ~reopenOk THEN 1 ELSE 0)
                            + (IF retry /\ ~retryOk THEN 1 ELSE 0),
                via |-> IF f2 = "nil" THEN "none" ELSE f2,
                sizeAt |-> Len(c2),
                err |-> IF f2 = "nil" THEN "open"
                        ELSE IF wrote THEN "none" ELSE "write",
                n |-> IF wrote THEN k ELSE 0 ])
  /\ UNCHANGED <<logMaxSize, logClosed>>
  /\ UNCHANGED <<mainVars, limVars>>

\* Close under the mutex: closes w.File when it is not nil
LogClose ==
  /\ ~logClosed
  /\ hist # << >>
  /\ logClosed' = TRUE
  /\ logFile' = IF logFile = "nil" THEN "nil" ELSE "closed"
  /\ UNCHANGED <<logMaxSize, written, content, hist>>
  /\ UNCHANGED <<mainVars, limVars>>

NextLog ==
  \/ LogWrite
  \/ LogClose

SpecLog == InitLog /\ [][NextLog]_vars

\* ================================================================ claims
\* the latest read returned a full event record
FullRead == lastRead.kind = "full"
\* the bytes of the record just read, as the claims name them
FrameIsSetup == buf[9] = evTypeSetup
FrameIsReady == buf[1] = bmReqTypeVendorIn /\ buf[2] = vendorReqReady
FrameLength == buf[7] + 256 * buf[8]
\* the loop is about to perform its next read
AtNextRead == pc = "read"
\* the loop is between a full-size setup read and the next read
InDispatch == pc \in {"dispatch", "write"}
\* the 8-byte record of the vendor reply for the readiness word loaded
ReplyRecord ==
  << 84, 90, 83, 71, protoVersion % 256, protoVersion \div 256,
     loaded.val % 256, 0 >>
\* the first k bytes of sequence q
Prefix(q, k) == [ i \in 1..k |-> q[i] ]

\* C1: a full-size setup frame whose request is not the vendor "ready"
\* request is answered by exactly one write before the next read, and that
\* write is zero-length; no reply data is ever written for it.
C1_UnrecognizedSetupStalls ==
  (FullRead /\ FrameIsSetup /\ ~FrameIsReady) =>
     /\ pc \in {"dispatch", "write", "read"}
     /\ \A i \in DOMAIN since : since[i].op = "write" /\ since[i].data = << >>
     /\ InDispatch => since = << >>
     /\ pc = "write" => out = << >>
     /\ AtNextRead => Len(since) = 1

C1_Witness ==
  /\ FullRead /\ FrameIsSetup /\ ~FrameIsReady
  /\ buf[1] = bmReqTypeVendorIn /\ buf[2] # vendorReqReady /\ FrameLength > 0
  /\ AtNextRead /\ Len(since) = 1 /\ since[1].op = "write"

\* C2: after a full-size frame whose event-type byte is not the setup
\* discriminator the loop performs no write before the next read, whatever
\* bytes 0-7 hold.
C2_NonSetupNoWrite ==
  (FullRead /\ ~FrameIsSetup) => (AtNextRead /\ since = << >> /\ out = << >>)

C2_Witness ==
  FullRead /\ ~FrameIsSetup /\ FrameIsReady /\ FrameLength > 0 /\ AtNextRead

\* C3 (as stated): for every requested length the vendor reply has length
\* min(L, 8) and its first 4 bytes are "TZSG".
C3_ReplyLenAndTag ==
  (pc = "write" /\ FrameIsReady) =>
     /\ Len(out) = (IF FrameLength < 8 THEN FrameLength ELSE 8)
     /\ \A i \in 1..4 : i \in DOMAIN out /\ out[i] = Tag[i]

\* C3 (amended): for every requested length L the vendor reply has length
\* min(L, 8) and its first min(L, 4) bytes are the first min(L, 4) bytes of
\* "TZSG".
C3_ReplyLenAndTagPrefix ==
  (pc = "write" /\ FrameIsReady) =>
     /\ Len(out) = (IF FrameLength < 8 THEN FrameLength ELSE 8)
     /\ \A i \in 1..4 : i <= FrameLength => (i \in DOMAIN out /\ out[i] = Tag[i])

C3_Witness ==
  /\ pc = "write" /\ FullRead /\ FrameIsSetup /\ FrameIsReady
  /\ FrameLength = 3 /\ out = << 84, 90, 83 >> /\ nReads = 2

\* C4: a vendor "ready" setup event is answered by exactly one write before
\* the next read, of exactly the first min(wLength, 8) bytes of
\* ["TZSG", protocolVersion LE, readiness byte loaded in this dispatch, 0];
\* never more than wLength bytes.
C4_VendorReplyBytes ==
  (FullRead /\ FrameIsSetup /\ FrameIsReady) =>
     LET k == IF FrameLength < 8 THEN FrameLength ELSE 8 IN
     /\ pc \in {"dispatch", "write", "read"}
     /\ pc = "dispatch" => since = << >>
     /\ pc = "write" => (since = << >> /\ loaded.done
                          /\ out = Prefix(ReplyRecord, k))
     /\ AtNextRead => /\ Len(since) = 1
                      /\ since[1].op = "write"
                      /\ loaded.done
                      /\ since[1].data = Prefix(ReplyRecord, k)
                      /\ Len(since[1].data) <= FrameLength
                      /\ (FrameLength = 3 => since[1].data = << 84, 90, 83 >>)
                      /\ (FrameLength = 0 => since[1].data = << >>)

C4_Witness ==
  /\ FullRead /\ FrameIsSetup /\ FrameIsReady /\ AtNextRead
  /\ FrameLength = 3 /\ loaded.val = 1
  /\ Len(since) = 1 /\ since[1].data = << 84, 90, 83 >>

\* C5: the loop is Stopped only after a read that reported end-of-stream,
\* and a read that reported end-of-stream is followed by the return with no
\* further read or write.
C5_StoppedOnlyByEOF ==
  /\ (pc = "stopped" \/ exitCode = 0) => (lastRead.kind = "eof" /\ since = << >>)
  /\ lastRead.kind = "eof" => (pc \in {"stopped", "exited"} /\ since = << >>)
  /\ (watching /\ pc = "exited") => lastRead.kind = "eof"

C5_Witness ==
  pc = "stopped" /\ failed /\ prev.kind = "err" /\ nReads = MaxReads

\* C6: after a read error other than end-of-stream the loop waits the retry
\* delay (1000 ms) and then reads again with no write in between; a read error
\* followed by end-of-stream gives one wait and a clean exit with no write.
C6_ReadErrorRetries ==
  /\ lastRead.kind = "err" =>
       \/ pc = "sleep" /\ since = << >>
       \/ pc = "read" /\ since = << Op("sleep", << 1000 >>, TRUE) >>
  /\ prev.kind = "err" => prev.ops = << "sleep" >>
  /\ (prev.kind = "err" /\ lastRead.kind = "eof" /\ nReads = 2) =>
       (pc \in {"stopped", "exited"} /\ nWrites = 0)

C6_Witness ==
  prev.kind = "err" /\ lastRead.kind = "eof" /\ nReads = 2 /\ exitCode = 0

\* C7: a read of fewer than EVENT_SIZE bytes is discarded: no write, no
\* sleep, no stop, and the next step is the next read, whatever the reused
\* buffer holds.
C7_ShortReadDiscarded ==
  /\ lastRead.kind = "short" => (AtNextRead /\ since = << >> /\ out = << >>)
  /\ prev.kind = "short" => prev.ops = << >>

C7_Witness ==
  /\ lastRead.kind = "short" /\ lastRead.n = 8 /\ AtNextRead
  /\ FrameIsSetup /\ FrameIsReady /\ FrameLength > 0
  /\ prev.kind = "full" /\ prev.ops = << "write" >>

\* C8: a failed write of the reply or of the STALL neither stops the loop
\* nor is retried nor followed by a sleep: the next step is the next read,
\* and later setup events are answered as after a successful write.
C8_WriteFailureContinues ==
  /\ \A i \in DOMAIN since :
       (since[i].op = "write" /\ ~since[i].ok) => (AtNextRead /\ Len(since) = 1)
  /\ prev.ops # << >> /\ prev.ops[1] = "write" => prev.ops = << "write" >>
  /\ (failed /\ FullRead /\ FrameIsSetup) => pc \in {"dispatch", "write", "read"}
  /\ (failed /\ pc = "write") =>
       out = (IF FrameIsReady
                THEN Prefix(ReplyRecord,
                            IF FrameLength < 8 THEN FrameLength ELSE 8)
                ELSE << >>)

C8_Witness ==
  /\ failed /\ pc = "write" /\ FrameIsReady /\ Len(out) = 8
  /\ prev.ops = << "write" >>

\* the values the readiness flag has held: the initial 0 and every store
HeldValues == {0} \cup { stores[i] : i \in DOMAIN stores }

\* C9: the readiness byte of a vendor reply is a whole value the flag held
\* at the instant of the request's atomic load, the initial 0 or a value
\* stored by the watcher, and it is no older than the stores completed
\* before the request was read.
C9_ReadinessByteIsHeldValue ==
  (pc = "write" /\ FullRead /\ FrameIsSetup /\ FrameIsReady /\ Len(out) >= 7) =>
     /\ loaded.done
     /\ loaded.val = (IF loaded.ver = 0 THEN 0 ELSE stores[loaded.ver])
     /\ loaded.ver >= storesAtRead
     /\ out[7] = loaded.val
     /\ out[7] \in HeldValues

\* C10: byte 6 of the vendor reply is 0 exactly when the readiness flag
\* loaded for it is 0, and nonzero whenever the flag is nonzero.
C10_ReadinessByteVerbatim ==
  (pc = "write" /\ FullRead /\ FrameIsSetup /\ FrameIsReady /\ Len(out) >= 7) =>
     (out[7] = 0 <=> loaded.val = 0)

\* C11 (as stated): once the handle is open, it is closed on every path by
\* which the process exits, the fatal exits of the bootstrap writes included.
C11_HandleClosedOnExit ==
  pc = "exited" => ep0 \in {"unopened", "closed"}

\* the bootstrap writes that succeeded, in order
BootDone == << Op("descriptors", << >>, TRUE), Op("strings", << >>, TRUE) >>

\* C12: the descriptors are written once, then the strings once, then the
\* watcher is started, and only then the loop reads; a failed open or
\* bootstrap write ends the process with no later write, no watcher and no
\* read.
C12_BootstrapOrder ==
  /\ Len(boot) <= 2
  /\ Len(boot) >= 1 => (boot[1].op = "descriptors" /\ ep0 # "unopened")
  /\ Len(boot) = 2 => (boot[1].ok /\ boot[2].op = "strings")
  /\ watching => boot = BootDone
  /\ (nReads > 0 \/ nWrites > 0 \/ stores # << >>
        \/ pc \in {"read", "sleep", "dispatch", "write", "stopped"}) => watching
  /\ (Len(boot) >= 1 /\ ~boot[Len(boot)].ok) =>
        (pc = "exited" /\ exitCode = 1 /\ ~watching /\ nReads = 0 /\ nWrites = 0)
  /\ exitCode = 1 =>
        /\ pc = "exited" /\ ~watching /\ nReads = 0 /\ nWrites = 0
        /\ stores = << >>
        /\ boot = << >> \/ ~boot[Len(boot)].ok
        /\ boot = << >> <=> ep0 = "unopened"

C12_Witness ==
  /\ exitCode = 1 /\ Len(boot) = 2 /\ ~boot[2].ok

C17_OneWritePerSetup ==
  /\ pc \in {"read", "sleep", "stopped"} => nWrites = nSetups
  /\ pc \in {"dispatch", "write"} => (nWrites + 1 = nSetups /\ since = << >>)
  /\ nWrites <= nSetups
  /\ Cardinality({ i \in DOMAIN since : since[i].op = "write" }) <= 1
  /\ (since # << >> /\ since[1].op = "write") =>
        (FullRead /\ FrameIsSetup /\ Len(since) = 1)
  /\ prev.ops \in { << >>, << "sleep" >>, << "write" >> }

C17_Witness ==
  /\ pc = "read" /\ nWrites = 2 /\ nSetups = 2 /\ nReads = 3 /\ failed
  /\ prev.ops = << "write" >>

\* C14: two vendor "ready" requests with the same wLength, served while the
\* flag holds the same value, get byte-identical writes, whatever frames,
\* errors or replies came between them.
C14_ReplyIsPureFunction ==
  /\ \A a \in seen, b \in seen :
       (a.len = b.len /\ a.rdy = b.rdy) => a.data = b.data
  /\ (pc = "write" /\ loaded.done) =>
       \A a \in seen :
         (a.len = FrameLength /\ a.rdy = loaded.val) => a.data = out

C14_Witness ==
  /\ pc = "write" /\ loaded.done /\ failed /\ prev.kind = "err"
  /\ FrameLength = 9 /\ loaded.val = 1
  /\ \E a \in seen : a.len = 9 /\ a.rdy = 1 /\ a.data = out

\* the attempts of sequence q made strictly within the window ending at now
InWindow(q, now) == { i \in DOMAIN q : q[i] > now - limWindow }
\* the subsequence of q at the indices in S, in order
RECURSIVE Pick(_, _, _)
Pick(q, S, i) ==
  IF i > Len(q) THEN << >>
  ELSE (IF i \in S THEN << q[i] >> ELSE << >>) \o Pick(q, S, i + 1)
\* the counted attempts left when the stale ones of the latest call are gone
KeptOfLastCall ==
  Pick(lastCall.before, InWindow(lastCall.before, lastCall.now), 1)

\* C15: for max >= 1 and window > 0, at most max calls returned true with a
\* timestamp in any interval (t - window, t], and a call returns true
\* exactly when fewer than max earlier allowed attempts lie strictly within
\* the last window.
C15_SlidingWindow ==
  (limMax >= 1 /\ limWindow > 0) =>
     /\ \A t \in 0..clock :
          Cardinality({ i \in DOMAIN allowed :
                          t - limWindow < allowed[i] /\ allowed[i] <= t })
            <= limMax
     /\ lastCall.called =>
          /\ lastCall.result \in {"true", "false"}
          /\ lastCall.result = "true" <=>
               Cardinality(InWindow(lastCall.prior, lastCall.now)) < limMax

C15_Witness ==
  /\ limMax = 2 /\ limWindow = 2 /\ Len(allowed) = 3
  /\ lastCall.result = "true" /\ lastCall.dueBefore >= 0

\* C16: a throttled call returns wait = oldest still-counted attempt +
\* window - now with 0 < wait <= window, and the first call made at
\* now + wait or later returns true.
C16_WaitIsExactAndSufficient ==
  /\ lastCall.result = "false" =>
       /\ KeptOfLastCall # << >>
       /\ lastCall.wait = KeptOfLastCall[1] + limWindow - lastCall.now
       /\ 0 < lastCall.wait /\ lastCall.wait <= limWindow
       /\ due = lastCall.now + lastCall.wait
  /\ (lastCall.called /\ lastCall.dueBefore >= 0
        /\ lastCall.now >= lastCall.dueBefore) => lastCall.result = "true"

C16_Witness ==
  /\ lastCall.result = "true" /\ lastCall.dueBefore >= 0
  /\ lastCall.now = lastCall.dueBefore /\ limMax = 2 /\ Len(lastCall.before) = 2

\* C18: a throttled call records nothing: the counted attempts after it are
\* those before it minus the stale ones, and it does not postpone the time
\* of the next allowed attempt; an allowed call appends exactly the current
\* time.
C18_ThrottledRecordsNothing ==
  /\ lastCall.result = "false" =>
       /\ attempts = KeptOfLastCall
       /\ allowed = lastCall.prior
       /\ lastCall.dueBefore >= 0 => due = lastCall.dueBefore
  /\ lastCall.result = "true" =>
       /\ attempts = Append(KeptOfLastCall, lastCall.now)
       /\ allowed = Append(lastCall.prior, lastCall.now)

C18_Witness ==
  /\ lastCall.result = "false" /\ lastCall.dueBefore >= 0
  /\ lastCall.now > lastCall.before[Len(lastCall.before)]
  /\ due = lastCall.dueBefore

\* C19 (as stated): with max <= 0 every Allow call, the first one on an
\* empty list included, returns false with a wait and records nothing.
C19_NonPositiveMaxThrottles ==
  (limMax <= 0 /\ lastCall.called) =>
     (lastCall.result = "false" /\ attempts = << >> /\ ~limPanic)

\* every file operation of every Write call so far succeeded, no Close
AllOk ==
  /\ ~logClosed
  /\ \A i \in DOMAIN hist : hist[i].fails = 0 /\ hist[i].err = "none"
\* the index of the latest Write call that reset the file, 1 if none did
RECURSIVE LastReset(_)
LastReset(i) == IF i <= 1 THEN 1 ELSE IF hist[i].reset THEN i ELSE LastReset(i - 1)
\* the slices of the Write calls i..j, concatenated
RECURSIVE Concat(_, _)
Concat(i, j) == IF i > j THEN << >> ELSE hist[i].p \o Concat(i + 1, j)
\* the bytes counted from the latest reset up to, not including, call j
CountedBefore(j) ==
  IF j <= 1 THEN 0 ELSE Len(Concat(LastReset(j - 1), j - 1))

\* C20: for MaxSize > 0 and succeeding file operations a Write truncates
\* the file exactly when the bytes counted since the previous reset are
\* >= MaxSize; the file holds the writes since the last reset, its size
\* before each write is < MaxSize and never exceeds MaxSize - 1 plus the
\* last write.  When the file is nil, Write opens it again and returns the
\* error of a failed open instead of writing through the nil file.
C20_LogResetBounds ==
  /\ (logMaxSize > 0 /\ AllOk) =>
       /\ \A j \in DOMAIN hist :
            /\ hist[j].reset <=> CountedBefore(j) >= logMaxSize
            /\ hist[j].truncated <=> hist[j].reset
            /\ hist[j].sizeAt < logMaxSize
            /\ hist[j].sizeAt = (IF hist[j].reset THEN 0 ELSE CountedBefore(j))
       /\ hist # << >> =>
            /\ content = Concat(LastReset(Len(hist)), Len(hist))
            /\ Len(content) <= logMaxSize - 1 + Len(hist[Len(hist)].p)
       /\ Len(content) = written
  /\ \A j \in DOMAIN hist :
       /\ hist[j].via # "nil"
       /\ (hist[j].reset /\ hist[j].fails >= 1) => hist[j].opens = 2
       /\ hist[j].fileBefore = "nil" => hist[j].opens >= 1
       /\ hist[j].fails = hist[j].opens /\ hist[j].opens > 0 =>
            (hist[j].err = "open" /\ hist[j].n = 0 /\ hist[j].via = "none")
       /\ hist[j].err = "open" => hist[j].fails = hist[j].opens
  /\ logFile = "nil" => (hist # << >> /\ hist[Len(hist)].err = "open")

C20_Witness ==
  /\ logMaxSize = 3 /\ Len(hist) = 3 /\ ~logClosed
  /\ Len(hist[1].p) = 3 /\ hist[1].err = "none"
  /\ hist[2].reset /\ hist[2].err = "open"
  /\ hist[3].fileBefore = "nil" /\ hist[3].err = "none" /\ hist[3].truncated
  /\ content = hist[3].p /\ Len(content) = 1

====
